---- MODULE Spec2Model ----
(***************************************************************************)
(* GeoOffice-Synchronization: the reconciliation engine.                   *)
(*                                                                         *)
(* The model covers SynchronizationService (queue, worker thread, one      *)
(* reconciliation pass in its steps), FileMonitorService's event handlers, *)
(* DatabaseService's operations on the Projects table, ProjectFileUtils    *)
(* (sentinel codec) and the file system the program works on.              *)
(*                                                                         *)
(* Texts are sequences of tokens.  A file content is a sequence over       *)
(* "WS" (white space), "{", "}", "urn:", "uuid:", "-", "z" (a character    *)
(* that is no hex digit) and hex blocks "h<n>" (16 hex digits each).  A    *)
(* directory name is a sequence of characters, a path a sequence of names. *)
(***************************************************************************)
EXTENDS Naturals, Sequences, FiniteSets, TLC

(***************************************************************************)
(* Bounds of the model.                                                    *)
(***************************************************************************)
MaxSync == 2        \* synchronize() calls that reach the queue
MaxEvents == 1      \* file system events delivered to the watcher
MaxUserOps == 1     \* changes made to the file share from outside

(***************************************************************************)
(* Names, paths and the configured directories.                            *)
(***************************************************************************)
PROJECT_FILE_NAME == <<".geo_office_project">>

TemplateName == <<"T">>
ServerPath == << <<"srv">> >>
ProjectDir == << <<"proj">> >>         \* Settings[1].project_dir
TemplateProjectDir == << TemplateName >> \* Settings[1].template_project_dir

projects_root_path == ServerPath \o ProjectDir
template_exc_path == projects_root_path \o TemplateProjectDir

DirT == << TemplateName >>
DirA == << <<"T", "a">> >>
DirB == << <<"c">>, <<"b">> >>
Dirs == {DirT, DirA, DirB}

NonePath == << <<"None">> >>    \* Python's None where a path is expected
NoneText == <<"None">>          \* Python's None where a text is expected
NoFile == <<"ENOENT">>          \* the directory holds no sentinel file

SentinelOf(d) == projects_root_path \o d \o <<PROJECT_FILE_NAME>>
Parent(p) == SubSeq(p, 1, Len(p) - 1)
Name(p) == IF Len(p) = 0 THEN <<>> ELSE p[Len(p)]

IsPrefix(a, b) == Len(a) <= Len(b) /\ SubSeq(b, 1, Len(a)) = a

\* pathlib: path.relative_to(base), None for the ValueError
relative_to(base, path) ==
    IF IsPrefix(base, path) THEN SubSeq(path, Len(base) + 1, Len(path)) ELSE NonePath

\* FileUtils.get_relative_path(base, path): the path relative to base, None
\* when path does not lie under base
get_relative_path(base, path) == relative_to(base, path)

\* ProjectFileUtils.get_relative_project_path(project_dir_path, file_path)
get_relative_project_path(project_dir_path, file_path) ==
    relative_to(project_dir_path, file_path)

\* str.startswith
startswith(s, prefix) == IsPrefix(prefix, s)

(***************************************************************************)
(* Sentinel codec.                                                         *)
(***************************************************************************)
HexBlock(n) == "h" \o ToString(n)

\* enough hex blocks for every uuid4() the bounded runs can draw
HexCount == MaxSync * Cardinality(Dirs) + MaxEvents + MaxUserOps + 1
HexBlocks == {HexBlock(n) : n \in 0..HexCount}

\* str(uuid.uuid4()) for the n-th draw: canonical text, never drawn before
uuid4(n) == <<HexBlock(n), "-", HexBlock(n)>>

Remove(s, toks) == SelectSeq(s, LAMBDA t : t \notin toks)

RECURSIVE StripLeft(_, _)
StripLeft(s, toks) ==
    IF s # <<>> /\ Head(s) \in toks THEN StripLeft(Tail(s), toks) ELSE s

RECURSIVE StripRight(_, _)
StripRight(s, toks) ==
    IF s # <<>> /\ s[Len(s)] \in toks
    THEN StripRight(SubSeq(s, 1, Len(s) - 1), toks) ELSE s

\* str.strip(chars)
Strip(s, toks) == StripRight(StripLeft(s, toks), toks)

\* uuid.UUID(hex): TRUE when the constructor accepts the text
UUID(hex) ==
    LET h1 == Remove(hex, {"urn:", "uuid:"})
        h2 == Remove(Strip(h1, {"{", "}"}), {"-"})
    IN  Len(h2) = 2 /\ \A i \in 1..Len(h2) : h2[i] \in HexBlocks

\* ProjectFileUtils.is_uid
is_uid(uid) ==
    IF uid = <<>> THEN FALSE ELSE UUID(<<"{">> \o uid \o <<"}">>)

\* the canonical RFC-4122 text form
IsCanonical(s) == Len(s) = 3 /\ s[1] \in HexBlocks /\ s[2] = "-" /\ s[3] \in HexBlocks

(***************************************************************************)
(* State.                                                                  *)
(***************************************************************************)
VARIABLES
    files,              \* [Dirs -> text]: the sentinel file of each project directory
    perm,               \* [Dirs -> {"rw", "r", "none"}]: what open() is allowed on it
    rootExists,         \* the projects directory on the file server is reachable
    rglobOrder,         \* the order in which rglob enumerates the directories
    catalog,            \* table Projects, in id order; id = index
    now,                \* datetime.now(), a logical clock
    minted,             \* number of uuid4() draws so far
    sync_queue,         \* SynchronizationService._sync_queue; 0 is the None task
    accepted,           \* number of tasks synchronize() has put
    is_worker_running,  \* SynchronizationService._is_worker_running
    is_synchronizing,   \* SynchronizationService._is_synchronizing
    worker,             \* [thread -> locals of _worker_process and _process_sync_task;
                        \*  ops0 and cat0 are history: userOps at the scan and the
                        \*  catalog at the catalog read]
    watcher,            \* locals of the watchdog thread inside an event handler
    events,             \* number of events delivered so far
    handled,            \* events outside the template subtree whose handler returned
    sd,                 \* position of the caller of shutdown()
    userOps,            \* number of outside changes so far
    passes,             \* history: number of passes that ran to their end
    late,               \* history: the tasks accepted after shutdown() was invoked
    refused,            \* history: 1 once a synchronize() call has returned False
    calm,               \* history: pass starts since the last change of files or
                        \* catalog made by anyone but the worker (at most 2)
    is_monitoring,      \* FileMonitorService.is_monitoring
    _stop_event,        \* FileMonitorService._stop_event is set
    observer,           \* FileMonitorService.observer: an observer's number, or None
    alive,              \* the observers whose thread runs
    made,               \* number of Observer() objects created so far
    loops,              \* position of each _monitoring_loop thread, in order of start
    api,                \* position of the caller of start_monitoring / stop_monitoring
    calls,              \* number of start_monitoring / stop_monitoring calls so far
    crashes,            \* number of observers that stopped on their own
    log                 \* history: the calls that returned True, oldest first

fsVars == <<files, perm, rootExists, rglobOrder>>
dbVars == <<catalog, now>>
queueVars == <<sync_queue, accepted>>
histVars == <<passes, calm, late, refused>>
monVars == <<is_monitoring, _stop_event, observer, alive, made, loops, api, calls,
             crashes, log>>
vars == <<files, perm, rootExists, rglobOrder, catalog, now, minted, sync_queue,
          accepted, is_worker_running, is_synchronizing, worker, watcher, events,
          handled, sd, userOps, passes, calm, late, refused, is_monitoring,
          _stop_event, observer, alive, made, loops, api, calls, crashes, log>>

None == 0
Perms == {"rw", "r", "none"}
Empty == <<>>

\* what a newly found share may hold, and what an outside writer may write
InitContents == {NoFile, Empty}
UserContents == {Empty, <<"z">>, <<"WS", HexBlock(0), "-", HexBlock(0), "WS">>}

Min(a, b) == IF a < b THEN a ELSE b

(***************************************************************************)
(* File system.                                                            *)
(***************************************************************************)
Exists(d) == rootExists /\ files[d] # NoFile
Readable(d) == Exists(d) /\ perm[d] # "none"
Writable(d) == Exists(d) /\ perm[d] = "rw"

\* the project directory (relative to the projects root) of a sentinel path
FileDir(file_path) == Parent(relative_to(projects_root_path, file_path))

IsSentinel(file_path) ==
    /\ IsPrefix(projects_root_path, file_path)
    /\ Name(file_path) = PROJECT_FILE_NAME
    /\ FileDir(file_path) \in Dirs

\* ProjectFileUtils.is_project_file
is_project_file(file_path) == IsSentinel(file_path) /\ Exists(FileDir(file_path))

\* ProjectFileUtils.read_project_file: the trimmed content, None on an error
read_project_file(file_path) ==
    IF IsSentinel(file_path) /\ Readable(FileDir(file_path))
    THEN Strip(files[FileDir(file_path)], {"WS"}) ELSE NoneText

CanWrite(file_path) == IsSentinel(file_path) /\ Writable(FileDir(file_path))

\* ProjectFileUtils.set_uid: the value returned (None when open() fails)
set_uid(file_path, n) == IF CanWrite(file_path) THEN uuid4(n) ELSE NoneText

\* ProjectFileUtils.set_uid: the files after the call
set_uid_files(file_path, n) ==
    IF CanWrite(file_path) THEN [files EXCEPT ![FileDir(file_path)] = uuid4(n)] ELSE files

\* Path.rglob(PROJECT_FILE_NAME): the directories holding a sentinel, in order
rglob == SelectSeq(rglobOrder, LAMBDA d : Exists(d))

(***************************************************************************)
(* Catalog (DatabaseService over table Projects).                          *)
(***************************************************************************)
Ids == 1..Len(catalog)

\* Project.get(uid=uid): "none", "one" with the row's id, or "error" for
\* MultipleObjectsFoundError; rows of every status are looked at
get_project_from_uid(cat, uid) ==
    LET hits == {i \in 1..Len(cat) : cat[i].uid = uid}
    IN  IF hits = {} THEN [kind |-> "none", id |-> 0]
        ELSE IF Cardinality(hits) = 1
             THEN [kind |-> "one", id |-> CHOOSE i \in hits : TRUE]
             ELSE [kind |-> "error", id |-> 0]

\* faulty variant of create_project: a missing uid is stored as it is
create_project_nullable(cat, name, path, uid, t) ==
    Append(cat, [id |-> Len(cat) + 1, uid |-> uid, path |-> path, name |-> name,
                 status |-> "active", modified_date |-> t])

\* DatabaseService.create_project: a new row, status "active", both dates
\* datetime.now(); uid is Required(str), so None raises and nothing is stored
create_project(cat, name, path, uid, t) ==
    IF uid = NoneText \/ path = NonePath THEN cat
    ELSE Append(cat, [id |-> Len(cat) + 1, uid |-> uid, path |-> path, name |-> name,
                      status |-> "active", modified_date |-> t])

\* faulty variant of update_project_path: the row's uid is reset with its path
update_project_path_reuid(cat, project_id, new_rel_path, t) ==
    [cat EXCEPT ![project_id].path = new_rel_path, ![project_id].uid = NoneText,
                ![project_id].modified_date = t]

\* DatabaseService.update_project_path
update_project_path(cat, project_id, new_rel_path, t) ==
    [cat EXCEPT ![project_id].path = new_rel_path, ![project_id].modified_date = t]

\* DatabaseService.update_project_name
update_project_name(cat, project_id, name, t) ==
    [cat EXCEPT ![project_id].name = name, ![project_id].modified_date = t]

\* faulty variant of mark_deleted_project: the modification date is kept
mark_deleted_project_stale(cat, project_id, t) ==
    [cat EXCEPT ![project_id].status = "delete"]

\* DatabaseService.mark_deleted_project
mark_deleted_project(cat, project_id, t) ==
    [cat EXCEPT ![project_id].status = "delete", ![project_id].modified_date = t]

\* DatabaseService.update_project_modified_date
update_project_modified_date(cat, project_id, t) ==
    [cat EXCEPT ![project_id].modified_date = t]

(***************************************************************************)
(* Python dicts {path: uid}, kept as sequences in insertion order.         *)
(***************************************************************************)
Keys(dict) == {dict[i].path : i \in 1..Len(dict)}

\* dict[k] = v: a known key keeps its place and takes the new value
DictPut(dict, k, v) ==
    IF k \in Keys(dict)
    THEN [i \in 1..Len(dict) |->
             IF dict[i].path = k THEN [path |-> k, uid |-> v] ELSE dict[i]]
    ELSE Append(dict, [path |-> k, uid |-> v])

\* for path, path_uid in dict.items(): if path_uid == uid: ...; break
FirstPath(dict, uid) ==
    LET hits == {i \in 1..Len(dict) : dict[i].uid = uid}
    IN  IF hits = {} THEN NonePath
        ELSE dict[CHOOSE i \in hits : \A j \in hits : i <= j].path

ValidUids(dict) == {dict[i].uid : i \in {j \in 1..Len(dict) : is_uid(dict[j].uid)}}

(***************************************************************************)
(* SynchronizationService: the parts of one pass.                          *)
(***************************************************************************)
\* faulty variant of ScanOne: the template subtree is not skipped
ScanOne_template(result, d) ==
    LET project_file == SentinelOf(d)
        uid_content == read_project_file(project_file)
        rel_path == get_relative_path(projects_root_path, Parent(project_file))
    IN  IF uid_content = NoneText THEN result
        ELSE IF rel_path = NonePath THEN result
        ELSE DictPut(result, rel_path, uid_content)

\* faulty variant of ScanOne: a failed read discards what the scan collected
ScanOne_hard(result, d) ==
    LET project_file == SentinelOf(d)
        uid_content == read_project_file(project_file)
        rel_path == get_relative_path(projects_root_path, Parent(project_file))
    IN  IF get_relative_path(template_exc_path, project_file) # NonePath THEN result
        ELSE IF uid_content = NoneText THEN <<>>
        ELSE IF rel_path = NonePath THEN result
        ELSE DictPut(result, rel_path, uid_content)

\* the loop body of _scan_files_for_projects for one sentinel file
ScanOne(result, d) ==
    LET project_file == SentinelOf(d)
        uid_content == read_project_file(project_file)
        rel_path == get_relative_path(projects_root_path, Parent(project_file))
    IN  IF get_relative_path(template_exc_path, project_file) # NonePath THEN result
        ELSE IF uid_content = NoneText THEN result
        ELSE IF rel_path = NonePath THEN result
        ELSE DictPut(result, rel_path, uid_content)

RECURSIVE ScanFrom(_, _)
ScanFrom(result, ds) ==
    IF ds = <<>> THEN result ELSE ScanFrom(ScanOne(result, Head(ds)), Tail(ds))

\* SynchronizationService._scan_files_for_projects
scan_files_for_projects == ScanFrom(<<>>, rglob)

RECURSIVE DbFrom(_, _, _)
DbFrom(result, cat, i) ==
    IF i > Len(cat) THEN result
    ELSE DbFrom(IF cat[i].status # "deleted"
                THEN DictPut(result, cat[i].path, cat[i].uid) ELSE result, cat, i + 1)

\* SynchronizationService._get_projects_from_database
get_projects_from_database(cat) == DbFrom(<<>>, cat, 1)

\* _sync_projects: common_uids = db_uids & file_uids
common_uids(projects_from_db, projects_from_fs) ==
    ValidUids(projects_from_db) \cap ValidUids(projects_from_fs)

\* _sync_common_uids: the uids whose iteration reaches the catalog
\* (db_rel_path and fs_rel_path and db_rel_path != fs_rel_path)
\* faulty variant of NeedsFix: every common uid is corrected, equal paths or not
NeedsFix_all(projects_from_db, projects_from_fs) ==
    common_uids(projects_from_db, projects_from_fs)

NeedsFix(projects_from_db, projects_from_fs) ==
    {uid \in common_uids(projects_from_db, projects_from_fs) :
        FirstPath(projects_from_db, uid) # FirstPath(projects_from_fs, uid)}

\* faulty variant of sync_common_uid: the new path is stored in a new record
sync_common_uid_create(cat, uid, fs_rel_path, t) ==
    create_project(cat, Name(fs_rel_path), fs_rel_path, uid, t + 1)

\* faulty variant of sync_common_uid: the record is renamed whatever its name
sync_common_uid_rename(cat, uid, fs_rel_path, t) ==
    LET project == get_project_from_uid(cat, uid)
        moved == update_project_path(cat, project.id, fs_rel_path, t + 1)
    IN  IF project.kind # "one" THEN cat
        ELSE update_project_name(moved, project.id, Name(fs_rel_path), t + 2)

\* _sync_common_uids, lines 315-319, for one uid: the catalog afterwards
sync_common_uid(cat, uid, fs_rel_path, t) ==
    LET project == get_project_from_uid(cat, uid)
        moved == update_project_path(cat, project.id, fs_rel_path, t + 1)
    IN  IF project.kind # "one" THEN cat
        ELSE IF startswith(cat[project.id].name, Name(template_exc_path))
             THEN update_project_name(moved, project.id, Name(fs_rel_path), t + 2)
             ELSE moved

\* faulty variant of NextNoUid: every scanned entry counts as untokened
NextNoUid_any(projects_from_fs, i) ==
    IF i <= Len(projects_from_fs) THEN i ELSE 0

\* _sync_files_without_uid: index of the next entry without a valid uid, from i on
NextNoUid(projects_from_fs, i) ==
    LET rest == {j \in i..Len(projects_from_fs) : ~is_uid(projects_from_fs[j].uid)}
    IN  IF rest = {} THEN 0 ELSE CHOOSE j \in rest : \A k \in rest : j <= k

\* _sync_files_without_uid: absolute_path = projects_root_path / rel_path / PROJECT_FILE_NAME
absolute_path(rel_path) == projects_root_path \o rel_path \o <<PROJECT_FILE_NAME>>

(***************************************************************************)
(* SynchronizationService: construction, queue and worker thread.          *)
(***************************************************************************)
Idle == [pc |-> "loop", task |-> None, fs |-> <<>>, db |-> <<>>, fix |-> {},
         i |-> 0, uid |-> NoneText, ops0 |-> 0, cat0 |-> <<>>]

\* faulty variant of _start_worker: a second worker thread is started
_start_worker_twice(running, threads) ==
    threads \cup {Cardinality(threads) + 1, Cardinality(threads) + 2}

\* SynchronizationService._start_worker: the worker threads after the call
_start_worker(running, threads) ==
    IF ~running THEN threads \cup {Cardinality(threads) + 1} ELSE threads

\* where a pass goes on after scan, catalog read and path corrections:
\* the next entry without a uid, or the end of the pass
AfterCommon(w) ==
    IF w.fix # {} THEN [w EXCEPT !.pc = "common"]
    ELSE IF NextNoUid(w.fs, w.i + 1) = 0 THEN [w EXCEPT !.pc = "finish", !.i = 0]
    ELSE [w EXCEPT !.pc = "set_uid", !.i = NextNoUid(w.fs, w.i + 1)]

\* the service and the watcher as constructed, over a readable projects root
Boot ==
    /\ perm = [d \in Dirs |-> "rw"]
    /\ rootExists = TRUE
    /\ catalog = <<>>
    /\ now = 0
    /\ minted = 0
    /\ sync_queue = <<>>
    /\ accepted = 0
    /\ is_worker_running = TRUE
    /\ is_synchronizing = FALSE
    /\ worker = [t \in _start_worker(FALSE, {}) |-> Idle]
    /\ watcher = [pc |-> "idle", file |-> <<>>, uid |-> NoneText]
    /\ events = 0
    /\ handled = 0
    /\ sd = "no"
    /\ userOps = 0
    /\ passes = 0
    /\ calm = 0
    /\ late = {}
    /\ refused = 0
    /\ is_monitoring = FALSE
    /\ _stop_event = FALSE
    /\ observer = None
    /\ alive = {}
    /\ made = 0
    /\ loops = <<>>
    /\ api = "idle"
    /\ calls = 0
    /\ crashes = 0
    /\ log = <<>>

Init ==
    /\ files \in [Dirs -> InitContents]
    /\ rglobOrder \in {<<DirA, DirB, DirT>>, <<DirB, DirA, DirT>>}
    /\ Boot

\* SynchronizationService._validate_paths
\* faulty variant of _validate_paths: the paths are taken to exist
_validate_paths_skipped == TRUE

_validate_paths == rootExists

\* faulty variant of synchronize: a request made during a pass is merged
\* into the running pass instead of being queued
synchronize_coalesced ==
    /\ accepted < MaxSync
    /\ IF _validate_paths
       THEN /\ sync_queue' = IF is_synchronizing THEN sync_queue
                                ELSE Append(sync_queue, accepted + 1)
            /\ accepted' = accepted + 1
            /\ late' = IF sd # "no" THEN late \cup {accepted + 1} ELSE late
            /\ UNCHANGED refused
       ELSE /\ refused' = 1
            /\ UNCHANGED <<queueVars, late>>
    /\ UNCHANGED <<fsVars, dbVars, minted, is_worker_running, is_synchronizing, worker,
                   watcher, events, handled, sd, userOps, passes, calm, monVars>>

\* SynchronizationService.synchronize
synchronize ==
    /\ accepted < MaxSync
    /\ IF _validate_paths
       THEN /\ sync_queue' = Append(sync_queue, accepted + 1)
            /\ accepted' = accepted + 1
            /\ late' = IF sd # "no" THEN late \cup {accepted + 1} ELSE late
            /\ UNCHANGED refused
       ELSE /\ refused' = 1
            /\ UNCHANGED <<queueVars, late>>
    /\ UNCHANGED <<fsVars, dbVars, minted, is_worker_running, is_synchronizing, worker,
                   watcher, events, handled, sd, userOps, passes, calm, monVars>>

\* _worker_process: while self._is_worker_running
WorkerLoop(t) ==
    /\ worker[t].pc = "loop"
    /\ worker' = [worker EXCEPT ![t].pc = IF is_worker_running THEN "get" ELSE "exited"]
    /\ UNCHANGED <<fsVars, dbVars, minted, queueVars, is_worker_running, is_synchronizing,
                   watcher, events, handled, sd, userOps, histVars, monVars>>

\* faulty variant of WorkerGet: the newest queued item is taken first
WorkerGet_newest(t) ==
    /\ worker[t].pc = "get"
    /\ IF sync_queue = <<>>
       THEN /\ worker' = [worker EXCEPT ![t].pc = "loop"]
            /\ UNCHANGED sync_queue
       ELSE /\ sync_queue' = SubSeq(sync_queue, 1, Len(sync_queue) - 1)
            /\ worker' = [worker EXCEPT
                            ![t].pc = IF sync_queue[Len(sync_queue)] = None
                                      THEN "exited" ELSE "begin",
                            ![t].task = sync_queue[Len(sync_queue)]]
    /\ UNCHANGED <<fsVars, dbVars, minted, accepted, is_worker_running, is_synchronizing,
                   watcher, events, handled, sd, userOps, histVars, monVars>>

\* _worker_process: task = self._sync_queue.get(timeout=1.0)
WorkerGet(t) ==
    /\ worker[t].pc = "get"
    /\ IF sync_queue = <<>>
       THEN /\ worker' = [worker EXCEPT ![t].pc = "loop"]
            /\ UNCHANGED sync_queue
       ELSE /\ sync_queue' = Tail(sync_queue)
            /\ worker' = [worker EXCEPT
                            ![t].pc = IF Head(sync_queue) = None THEN "exited" ELSE "begin",
                            ![t].task = Head(sync_queue)]
    /\ UNCHANGED <<fsVars, dbVars, minted, accepted, is_worker_running, is_synchronizing,
                   watcher, events, handled, sd, userOps, histVars, monVars>>

\* _process_sync_task: _is_synchronizing = True, then _scan_files_for_projects
PassBegin(t) ==
    /\ worker[t].pc = "begin"
    /\ is_synchronizing' = TRUE
    /\ worker' = [worker EXCEPT ![t].pc = "readdb", ![t].fs = scan_files_for_projects,
                                ![t].ops0 = userOps]
    /\ calm' = Min(calm + 1, 2)
    /\ UNCHANGED <<fsVars, dbVars, minted, queueVars, is_worker_running, watcher, events,
                   handled, sd, userOps, passes, late, refused, monVars>>

\* faulty variant of PassReadDb: the records whose uid the scan did not find
\* are marked deleted (the branch _sync_projects keeps commented out)
PassReadDb_prune(t) ==
    /\ worker[t].pc = "readdb"
    /\ \E db \in {get_projects_from_database(catalog)} :
       \E fix \in {NeedsFix(db, worker[t].fs)} :
       \E w \in {[worker[t] EXCEPT !.db = db, !.fix = fix, !.cat0 = catalog]} :
           worker' = [worker EXCEPT ![t] = AfterCommon(w)]
    /\ catalog' = [i \in 1..Len(catalog) |->
                      IF catalog[i].uid \in ValidUids(worker[t].fs) THEN catalog[i]
                      ELSE mark_deleted_project(catalog, i, now + 1)[i]]
    /\ now' = now + 1
    /\ UNCHANGED <<fsVars, minted, queueVars, is_worker_running, is_synchronizing,
                   watcher, events, handled, sd, userOps, histVars, monVars>>

\* _process_sync_task: _get_projects_from_database, then _sync_projects up to
\* the first iteration that reaches the catalog or a sentinel file
PassReadDb(t) ==
    /\ worker[t].pc = "readdb"
    /\ \E db \in {get_projects_from_database(catalog)} :
       \E fix \in {NeedsFix(db, worker[t].fs)} :
       \E w \in {[worker[t] EXCEPT !.db = db, !.fix = fix, !.cat0 = catalog]} :
           worker' = [worker EXCEPT ![t] = AfterCommon(w)]
    /\ UNCHANGED <<fsVars, dbVars, minted, queueVars, is_worker_running, is_synchronizing,
                   watcher, events, handled, sd, userOps, histVars, monVars>>

\* _sync_common_uids: one iteration of "for uid in common_uids" with differing paths
PassCommon(t) ==
    /\ worker[t].pc = "common"
    /\ \E uid \in worker[t].fix :
         LET after == sync_common_uid(catalog, uid, FirstPath(worker[t].fs, uid), now)
         IN  /\ catalog' = after
             /\ now' = IF after = catalog THEN now ELSE now + 2
             /\ worker' = [worker EXCEPT ![t] =
                    AfterCommon([worker[t] EXCEPT !.fix = worker[t].fix \ {uid}])]
    /\ UNCHANGED <<fsVars, minted, queueVars, is_worker_running, is_synchronizing,
                   watcher, events, handled, sd, userOps, histVars, monVars>>

\* faulty variant of PassSetUid: the pass is given up once the stop flag is seen
PassSetUid_cancelled(t) ==
    /\ worker[t].pc = "set_uid"
    /\ IF is_worker_running
       THEN LET file_path == absolute_path(worker[t].fs[worker[t].i].path)
            IN  /\ files' = set_uid_files(file_path, minted + 1)
                /\ worker' = [worker EXCEPT ![t].pc = "create",
                                            ![t].uid = set_uid(file_path, minted + 1)]
       ELSE /\ worker' = [worker EXCEPT ![t].pc = "exited"]
            /\ UNCHANGED files
    /\ minted' = minted + 1
    /\ UNCHANGED <<perm, rootExists, rglobOrder, dbVars, queueVars, is_worker_running,
                   is_synchronizing, watcher, events, handled, sd, userOps, histVars, monVars>>

\* _sync_files_without_uid: uid = ProjectFileUtils.set_uid(absolute_path)
PassSetUid(t) ==
    /\ worker[t].pc = "set_uid"
    /\ LET file_path == absolute_path(worker[t].fs[worker[t].i].path)
       IN  /\ files' = set_uid_files(file_path, minted + 1)
           /\ worker' = [worker EXCEPT ![t].pc = "create",
                                       ![t].uid = set_uid(file_path, minted + 1)]
    /\ minted' = minted + 1
    /\ UNCHANGED <<perm, rootExists, rglobOrder, dbVars, queueVars, is_worker_running,
                   is_synchronizing, watcher, events, handled, sd, userOps, histVars, monVars>>

\* faulty variant of PassCreate: a create_project that raises ends the pass
PassCreate_abort(t) ==
    /\ worker[t].pc = "create"
    /\ LET rel_path == worker[t].fs[worker[t].i].path
           project_name == Name(Parent(absolute_path(rel_path)))
       IN  catalog' = create_project(catalog, project_name, rel_path, worker[t].uid, now + 1)
    /\ now' = IF catalog' = catalog THEN now ELSE now + 1
    /\ worker' = [worker EXCEPT ![t] =
           IF catalog' = catalog THEN [worker[t] EXCEPT !.pc = "finish", !.i = 0,
                                                        !.uid = NoneText]
           ELSE AfterCommon([worker[t] EXCEPT !.uid = NoneText])]
    /\ UNCHANGED <<fsVars, minted, queueVars, is_worker_running, is_synchronizing,
                   watcher, events, handled, sd, userOps, histVars, monVars>>

\* _sync_files_without_uid: create_project(name, rel_path, uid), then on to the
\* next entry without a uid
PassCreate(t) ==
    /\ worker[t].pc = "create"
    /\ LET rel_path == worker[t].fs[worker[t].i].path
           project_name == Name(Parent(absolute_path(rel_path)))
       IN  catalog' = create_project(catalog, project_name, rel_path, worker[t].uid, now + 1)
    /\ now' = IF catalog' = catalog THEN now ELSE now + 1
    /\ worker' = [worker EXCEPT ![t] = AfterCommon([worker[t] EXCEPT !.uid = NoneText])]
    /\ UNCHANGED <<fsVars, minted, queueVars, is_worker_running, is_synchronizing,
                   watcher, events, handled, sd, userOps, histVars, monVars>>

\* faulty variant of PassFinish: the error of a pass that found nothing leaves
\* _worker_process
PassFinish_dies(t) ==
    /\ worker[t].pc = "finish"
    /\ is_synchronizing' = FALSE
    /\ worker' = [worker EXCEPT ![t] =
           IF worker[t].fs = <<>> THEN [Idle EXCEPT !.pc = "exited"] ELSE Idle]
    /\ passes' = passes + 1
    /\ UNCHANGED <<fsVars, dbVars, minted, queueVars, is_worker_running, watcher, events,
                   handled, sd, userOps, calm, late, refused, monVars>>

\* faulty variant of PassFinish: the flag is left set after a pass that found nothing
PassFinish_sticky(t) ==
    /\ worker[t].pc = "finish"
    /\ is_synchronizing' = (worker[t].fs = <<>>)
    /\ worker' = [worker EXCEPT ![t] = Idle]
    /\ passes' = passes + 1
    /\ UNCHANGED <<fsVars, dbVars, minted, queueVars, is_worker_running, watcher, events,
                   handled, sd, userOps, calm, late, refused, monVars>>

\* _process_sync_task: finally: _is_synchronizing = False; then task_done()
PassFinish(t) ==
    /\ worker[t].pc = "finish"
    /\ is_synchronizing' = FALSE
    /\ worker' = [worker EXCEPT ![t] = Idle]
    /\ passes' = passes + 1
    /\ UNCHANGED <<fsVars, dbVars, minted, queueVars, is_worker_running, watcher, events,
                   handled, sd, userOps, calm, late, refused, monVars>>

(***************************************************************************)
(* SynchronizationService.shutdown, by a caller thread.                    *)
(***************************************************************************)
InPass(t) == worker[t].pc \notin {"loop", "get", "exited"}
Alive(t) == worker[t].pc # "exited"

\* shutdown: self._is_worker_running = False
ShutdownFlag ==
    /\ sd = "no"
    /\ is_worker_running' = FALSE
    /\ sd' = "put"
    /\ UNCHANGED <<fsVars, dbVars, minted, queueVars, is_synchronizing, worker, watcher,
                   events, handled, userOps, histVars, monVars>>

\* shutdown: self._sync_queue.put_nowait(None)
ShutdownPut ==
    /\ sd = "put"
    /\ sync_queue' = Append(sync_queue, None)
    /\ sd' = "join"
    /\ UNCHANGED <<fsVars, dbVars, minted, accepted, is_worker_running, is_synchronizing,
                   worker, watcher, events, handled, userOps, histVars, monVars>>

\* faulty variant of ShutdownJoin: shutdown() returns without join()
ShutdownJoin_nowait ==
    /\ sd = "join"
    /\ sd' = "done"
    /\ UNCHANGED <<fsVars, dbVars, minted, queueVars, is_worker_running, is_synchronizing,
                   worker, watcher, events, handled, userOps, histVars, monVars>>

\* shutdown: self._worker_thread.join(timeout=60.0) returns: the thread has
\* exited, or it is still inside a pass when the timeout elapses
ShutdownJoin ==
    /\ sd = "join"
    /\ \A t \in DOMAIN worker : ~Alive(t) \/ InPass(t)
    /\ sd' = "done"
    /\ UNCHANGED <<fsVars, dbVars, minted, queueVars, is_worker_running, is_synchronizing,
                   worker, watcher, events, handled, userOps, histVars, monVars>>

\* SynchronizationService.shutdown
shutdown == ShutdownFlag \/ ShutdownPut \/ ShutdownJoin

(***************************************************************************)
(* FileMonitorService: the watchdog thread and its handlers.               *)
(***************************************************************************)
UnderTemplate(file_path) == IsPrefix(template_exc_path, file_path)

WatcherIdle == [pc |-> "idle", file |-> <<>>, uid |-> NoneText]

\* the handler returns: one more handled event of a path outside the template
Returned(file_path) == IF UnderTemplate(file_path) THEN handled ELSE handled + 1

\* what ProjectFileHandler.on_created and on_modified both do for a file
\* event, and handle_project_file_created up to its first write or catalog access
file_event(file_path) ==
    /\ watcher.pc = "idle"
    /\ events' = events + 1
    /\ IF ~is_project_file(file_path)
       THEN /\ watcher' = WatcherIdle
            /\ handled' = Returned(file_path)
       ELSE /\ watcher' =
                 LET file_text == read_project_file(file_path)
                 IN  IF is_uid(file_text)
                     THEN [pc |-> "lookup", file |-> file_path, uid |-> file_text]
                     ELSE [pc |-> "set_uid", file |-> file_path, uid |-> NoneText]
            /\ UNCHANGED handled
    /\ UNCHANGED <<fsVars, dbVars, minted, queueVars, is_worker_running, is_synchronizing,
                   worker, sd, userOps, histVars, monVars>>

\* ProjectFileHandler.on_created
on_created(file_path) == events < MaxEvents /\ file_event(file_path)

\* ProjectFileHandler.on_deleted / on_moved: handle_project_file_deleted,
\* handle_directory_deleted and handle_project_file_moved only write the log
on_deleted(file_path) ==
    /\ watcher.pc = "idle"
    /\ events < MaxEvents
    /\ events' = events + 1
    /\ handled' = Returned(file_path)
    /\ UNCHANGED <<fsVars, dbVars, minted, queueVars, is_worker_running, is_synchronizing,
                   worker, watcher, sd, userOps, histVars, monVars>>

\* handle_project_file_created: uid = ProjectFileUtils.set_uid(file_path)
HandlerSetUid ==
    /\ watcher.pc = "set_uid"
    /\ files' = set_uid_files(watcher.file, minted + 1)
    /\ minted' = minted + 1
    /\ IF set_uid(watcher.file, minted + 1) = NoneText
       THEN /\ watcher' = WatcherIdle
            /\ handled' = Returned(watcher.file)
            /\ UNCHANGED calm
       ELSE /\ watcher' = [watcher EXCEPT !.pc = "lookup",
                                          !.uid = set_uid(watcher.file, minted + 1)]
            /\ calm' = 0
            /\ UNCHANGED handled
    /\ UNCHANGED <<perm, rootExists, rglobOrder, dbVars, queueVars, is_worker_running,
                   is_synchronizing, worker, events, sd, userOps, passes, late, refused, monVars>>

\* faulty variant of HandlerLookup: the record is created without a lookup
HandlerLookup_blind ==
    /\ watcher.pc = "lookup"
    /\ watcher' = [watcher EXCEPT !.pc = "create"]
    /\ UNCHANGED <<fsVars, dbVars, minted, queueVars, is_worker_running, is_synchronizing,
                   worker, events, handled, sd, userOps, histVars, monVars>>

\* handle_project_file_created: if self.database_service.get_project_from_uid(uid): return
HandlerLookup ==
    /\ watcher.pc = "lookup"
    /\ IF get_project_from_uid(catalog, watcher.uid).kind = "none"
       THEN /\ watcher' = [watcher EXCEPT !.pc = "create"]
            /\ UNCHANGED handled
       ELSE /\ watcher' = WatcherIdle
            /\ handled' = Returned(watcher.file)
    /\ UNCHANGED <<fsVars, dbVars, minted, queueVars, is_worker_running, is_synchronizing,
                   worker, events, sd, userOps, histVars, monVars>>

\* handle_project_file_created: create_project(name, rel_path, uid)
HandlerCreate ==
    /\ watcher.pc = "create"
    /\ LET project_dir_path == ServerPath \o ProjectDir
           rel_path == get_relative_project_path(project_dir_path, watcher.file)
           name == Name(Parent(watcher.file))
       IN  catalog' = create_project(catalog, name, rel_path, watcher.uid, now + 1)
    /\ now' = now + 1
    /\ calm' = 0
    /\ watcher' = WatcherIdle
    /\ handled' = Returned(watcher.file)
    /\ UNCHANGED <<fsVars, minted, queueVars, is_worker_running, is_synchronizing,
                   worker, events, sd, userOps, passes, late, refused, monVars>>

\* FileMonitorService.handle_project_file_created
handle_project_file_created == HandlerSetUid \/ HandlerLookup \/ HandlerCreate

(***************************************************************************)
(* The file share changes from outside the program.                        *)
(***************************************************************************)
UserStep ==
    /\ userOps < MaxUserOps
    /\ userOps' = userOps + 1
    /\ calm' = 0
    /\ UNCHANGED <<rglobOrder, dbVars, minted, queueVars, is_worker_running,
                   is_synchronizing, worker, watcher, events, handled, sd, passes,
                   late, refused, monVars>>

UserWrite(d, c) ==
    /\ UserStep
    /\ files' = [files EXCEPT ![d] = c]
    /\ UNCHANGED <<perm, rootExists>>

UserMove(d1, d2) ==
    /\ UserStep
    /\ files[d1] # NoFile /\ files[d2] = NoFile
    /\ files' = [files EXCEPT ![d2] = files[d1], ![d1] = NoFile]
    /\ perm' = [perm EXCEPT ![d2] = perm[d1], ![d1] = "rw"]
    /\ UNCHANGED rootExists

UserCopy(d1, d2) ==
    /\ UserStep
    /\ files[d1] # NoFile /\ files[d2] = NoFile
    /\ files' = [files EXCEPT ![d2] = files[d1]]
    /\ UNCHANGED <<perm, rootExists>>

UserDelete(d) ==
    /\ UserStep
    /\ files[d] # NoFile
    /\ files' = [files EXCEPT ![d] = NoFile]
    /\ perm' = [perm EXCEPT ![d] = "rw"]
    /\ UNCHANGED rootExists

UserChmod(d, p) ==
    /\ UserStep
    /\ files[d] # NoFile /\ perm[d] # p
    /\ perm' = [perm EXCEPT ![d] = p]
    /\ UNCHANGED <<files, rootExists>>

UserRoot ==
    /\ UserStep
    /\ rootExists' = ~rootExists
    /\ UNCHANGED <<files, perm>>

(***************************************************************************)
(* Specification.                                                          *)
(***************************************************************************)
WorkerNext ==
    \/ \E t \in DOMAIN worker : WorkerLoop(t)
    \/ \E t \in DOMAIN worker : WorkerGet(t)
    \/ \E t \in DOMAIN worker : PassBegin(t)
    \/ \E t \in DOMAIN worker : PassReadDb(t)
    \/ \E t \in DOMAIN worker : PassCommon(t)
    \/ \E t \in DOMAIN worker : PassSetUid(t)
    \/ \E t \in DOMAIN worker : PassCreate(t)
    \/ \E t \in DOMAIN worker : PassFinish(t)

WatcherNext ==
    \/ \E d \in Dirs : on_created(SentinelOf(d))
    \/ \E d \in Dirs : on_deleted(SentinelOf(d))
    \/ handle_project_file_created

UserNext ==
    \/ \E d \in Dirs, c \in UserContents : UserWrite(d, c)
    \/ \E d1, d2 \in Dirs : UserMove(d1, d2)
    \/ \E d1, d2 \in Dirs : UserCopy(d1, d2)
    \/ \E d \in Dirs : UserDelete(d)
    \/ \E d \in Dirs, p \in Perms : UserChmod(d, p)
    \/ UserRoot

Next ==
    \/ synchronize
    \/ WorkerNext
    \/ shutdown
    \/ WatcherNext
    \/ UserNext

Spec == Init /\ [][Next]_vars

\* one starting tree: an untokened project, the template's sentinel, no third
FairInit ==
    /\ Init
    /\ rglobOrder = <<DirA, DirB, DirT>>
    /\ files = [d \in Dirs |-> IF d = DirB THEN NoFile ELSE Empty]

\* the worker is a thread of its own: it keeps running whenever it can step
FairSpec == FairInit /\ [][Next]_vars /\ WF_vars(WorkerNext)

(***************************************************************************)
(* The validator on its own: a sentinel of any content appears and the     *)
(* watcher's handler reads and validates it.                               *)
(***************************************************************************)
MaxText == 5

Tokens == {"{", "}", "urn:", "uuid:", "-", HexBlock(0), "z", "WS"}
Texts == UNION {[1..n -> Tokens] : n \in 0..MaxText}

UidInit ==
    /\ files \in {[d \in Dirs |-> IF d = DirA THEN text ELSE NoFile] : text \in Texts}
    /\ rglobOrder = <<DirA, DirB, DirT>>
    /\ Boot

UidNext == \E d \in {DirA} : on_created(SentinelOf(d))

UidSpec == UidInit /\ [][UidNext]_vars

(***************************************************************************)
(* The watcher on its own: created and modified events of sentinel files   *)
(* are delivered one after the other, nobody else writes.                  *)
(***************************************************************************)
MaxDeliveries == 4

\* ProjectFileHandler.on_modified
on_modified(file_path) == events < MaxDeliveries /\ file_event(file_path)

WatcherSpecNext ==
    \/ \E d \in Dirs : on_modified(SentinelOf(d))
    \/ handle_project_file_created

WatcherSpec == Init /\ [][WatcherSpecNext]_vars

(***************************************************************************)
(* FileMonitorService: start_monitoring and stop_monitoring by a caller    *)
(* thread, the _monitoring_loop threads, and observers that may stop on    *)
(* their own.  A join waits until its thread has ended.                    *)
(***************************************************************************)
MaxApi == 4
MaxCrashes == 1

monFrame == <<fsVars, dbVars, minted, queueVars, is_worker_running, is_synchronizing,
              worker, watcher, events, handled, sd, userOps, histVars>>

\* start_monitoring: if self.is_monitoring: return True; the monitored path
\* must exist, else return False
StartCall ==
    /\ api = "idle"
    /\ calls < MaxApi
    /\ calls' = calls + 1
    /\ IF is_monitoring
       THEN /\ log' = Append(log, "start")
            /\ UNCHANGED api
       ELSE IF ~rootExists
            THEN UNCHANGED <<api, log>>
            ELSE /\ api' = "start_setup"
                 /\ UNCHANGED log
    /\ UNCHANGED <<is_monitoring, _stop_event, observer, alive, made, loops, crashes>>
    /\ UNCHANGED monFrame

\* _setup_observer, called by start_monitoring: self.observer = Observer(); start()
StartSetup ==
    /\ api = "start_setup"
    /\ observer' = made + 1
    /\ alive' = alive \cup {made + 1}
    /\ made' = made + 1
    /\ api' = "start_thread"
    /\ UNCHANGED <<is_monitoring, _stop_event, loops, calls, crashes, log>>
    /\ UNCHANGED monFrame

\* start_monitoring: Thread(target=self._monitoring_loop).start()
StartThread ==
    /\ api = "start_thread"
    /\ loops' = Append(loops, "while")
    /\ api' = "start_flag"
    /\ UNCHANGED <<is_monitoring, _stop_event, observer, alive, made, calls, crashes, log>>
    /\ UNCHANGED monFrame

\* start_monitoring: self.is_monitoring = True; return True
StartFlag ==
    /\ api = "start_flag"
    /\ is_monitoring' = TRUE
    /\ log' = Append(log, "start")
    /\ api' = "idle"
    /\ UNCHANGED <<_stop_event, observer, alive, made, loops, calls, crashes>>
    /\ UNCHANGED monFrame

\* stop_monitoring: if not self.is_monitoring: return True; self._stop_event.set()
StopCall ==
    /\ api = "idle"
    /\ calls < MaxApi
    /\ calls' = calls + 1
    /\ IF ~is_monitoring
       THEN /\ log' = Append(log, "stop")
            /\ UNCHANGED <<api, _stop_event>>
       ELSE /\ _stop_event' = TRUE
            /\ api' = "stop_observer"
            /\ UNCHANGED log
    /\ UNCHANGED <<is_monitoring, observer, alive, made, loops, crashes>>
    /\ UNCHANGED monFrame

\* stop_monitoring: if self.observer: self.observer.stop(); self.observer.join()
StopObserver ==
    /\ api = "stop_observer"
    /\ alive' = alive \ {observer}
    /\ api' = "stop_join"
    /\ UNCHANGED <<is_monitoring, _stop_event, observer, made, loops, calls, crashes, log>>
    /\ UNCHANGED monFrame

\* stop_monitoring: self._monitoring_thread.join(), the thread started last
StopJoin ==
    /\ api = "stop_join"
    /\ loops = <<>> \/ loops[Len(loops)] = "done"
    /\ api' = "stop_cleanup"
    /\ UNCHANGED <<is_monitoring, _stop_event, observer, alive, made, loops, calls,
                   crashes, log>>
    /\ UNCHANGED monFrame

\* stop_monitoring: self._cleanup(); self.is_monitoring = False; return True
StopCleanup ==
    /\ api = "stop_cleanup"
    /\ observer' = None
    /\ is_monitoring' = FALSE
    /\ log' = Append(log, "stop")
    /\ api' = "idle"
    /\ UNCHANGED <<_stop_event, alive, made, loops, calls, crashes>>
    /\ UNCHANGED monFrame

\* _monitoring_loop: while not self._stop_event.is_set()
LoopWhile(k) ==
    /\ loops[k] = "while"
    /\ loops' = [loops EXCEPT ![k] = IF _stop_event THEN "finally" ELSE "check"]
    /\ UNCHANGED <<is_monitoring, _stop_event, observer, alive, made, api, calls,
                   crashes, log>>
    /\ UNCHANGED monFrame

\* _monitoring_loop: if self.observer and not self.observer.is_alive():
\* self.observer.join(timeout=1)
LoopCheck(k) ==
    /\ loops[k] = "check"
    /\ loops' = [loops EXCEPT ![k] =
           IF observer # None /\ observer \notin alive THEN "recheck" ELSE "wait"]
    /\ UNCHANGED <<is_monitoring, _stop_event, observer, alive, made, api, calls,
                   crashes, log>>
    /\ UNCHANGED monFrame

\* _monitoring_loop: if not self._stop_event.is_set(): (then _setup_observer)
LoopRecheck(k) ==
    /\ loops[k] = "recheck"
    /\ loops' = [loops EXCEPT ![k] = IF _stop_event THEN "wait" ELSE "setup"]
    /\ UNCHANGED <<is_monitoring, _stop_event, observer, alive, made, api, calls,
                   crashes, log>>
    /\ UNCHANGED monFrame

\* _setup_observer, called by _monitoring_loop
LoopSetup(k) ==
    /\ loops[k] = "setup"
    /\ observer' = made + 1
    /\ alive' = alive \cup {made + 1}
    /\ made' = made + 1
    /\ loops' = [loops EXCEPT ![k] = "wait"]
    /\ UNCHANGED <<is_monitoring, _stop_event, api, calls, crashes, log>>
    /\ UNCHANGED monFrame

\* _monitoring_loop: self._stop_event.wait(timeout=1)
LoopWait(k) ==
    /\ loops[k] = "wait"
    /\ loops' = [loops EXCEPT ![k] = "while"]
    /\ UNCHANGED <<is_monitoring, _stop_event, observer, alive, made, api, calls,
                   crashes, log>>
    /\ UNCHANGED monFrame

\* _monitoring_loop: finally: self.is_monitoring = False
LoopFinally(k) ==
    /\ loops[k] = "finally"
    /\ is_monitoring' = FALSE
    /\ loops' = [loops EXCEPT ![k] = "done"]
    /\ UNCHANGED <<_stop_event, observer, alive, made, api, calls, crashes, log>>
    /\ UNCHANGED monFrame

\* an observer's thread ends on its own (the case _monitoring_loop watches for)
ObserverDies ==
    /\ crashes < MaxCrashes
    /\ \E o \in alive : alive' = alive \ {o}
    /\ crashes' = crashes + 1
    /\ UNCHANGED <<is_monitoring, _stop_event, observer, made, loops, api, calls, log>>
    /\ UNCHANGED monFrame

MonitorNext ==
    \/ StartCall \/ StartSetup \/ StartThread \/ StartFlag
    \/ StopCall \/ StopObserver \/ StopJoin \/ StopCleanup
    \/ \E k \in DOMAIN loops : LoopWhile(k)
    \/ \E k \in DOMAIN loops : LoopCheck(k)
    \/ \E k \in DOMAIN loops : LoopRecheck(k)
    \/ \E k \in DOMAIN loops : LoopSetup(k)
    \/ \E k \in DOMAIN loops : LoopWait(k)
    \/ \E k \in DOMAIN loops : LoopFinally(k)
    \/ ObserverDies

MonitorSpec == FairInit /\ [][MonitorNext]_vars

(***************************************************************************)
(* Notions the properties are stated with.                                 *)
(***************************************************************************)
Threads == DOMAIN worker
Active(i) == catalog[i].status # "deleted"
UnderTemplateDir(rel_path) == IsPrefix(TemplateProjectDir, rel_path)

\* the pass of thread t is at its end and the file share was not changed from
\* outside since its scan
AtEnd(t) == worker[t].pc = "finish"
Undisturbed(t) == worker[t].ops0 = userOps

\* the paths at which a scan result holds the identity uid
PathsOf(dict, uid) == {dict[k].path : k \in {j \in 1..Len(dict) : dict[j].uid = uid}}

(***************************************************************************)
(* C1: for one SynchronizationService at most one reconciliation pass      *)
(* (_process_sync_task) is running at any instant, whatever the            *)
(* interleaving of synchronize() calls.                                    *)
(***************************************************************************)
C1_OnePassAtATime == Cardinality({t \in Threads : InPass(t)}) <= 1

\* a pass is in flight while a second accepted request waits in the queue
C1_Witness ==
    /\ \E t \in Threads : InPass(t)
    /\ sync_queue # <<>> /\ Head(sync_queue) # None
    /\ accepted >= 2

(***************************************************************************)
(* C2: no step of a watcher event handler (created, modified, deleted,     *)
(* moved) writes the catalog.                                              *)
(***************************************************************************)
C2_WatcherNeverWritesCatalog == [][WatcherNext => catalog' = catalog]_vars

(***************************************************************************)
(* C3: untokened adoption.  At the end of a pass, for every sentinel the   *)
(* scan found without a valid uid (outside the template subtree, writable, *)
(* the share not changed from outside during the pass) the sentinel file   *)
(* holds a valid UUID and exactly one active record has that identity and  *)
(* the sentinel's path - also when watcher handlers ran during the pass.   *)
(***************************************************************************)
C3_UntokenedAdopted ==
    \A t \in Threads :
        AtEnd(t) /\ Undisturbed(t) =>
            \A k \in 1..Len(worker[t].fs) :
                LET P == worker[t].fs[k].path
                IN  ~is_uid(worker[t].fs[k].uid) /\ Writable(P) =>
                        /\ is_uid(files[P])
                        /\ Cardinality({i \in Ids : /\ Active(i)
                                                    /\ catalog[i].uid = files[P]
                                                    /\ catalog[i].path = P}) = 1

C5_PathCorrected ==
    \A t \in Threads :
        AtEnd(t) =>
            \A i \in 1..Len(worker[t].cat0) :
                LET r == worker[t].cat0[i]
                IN  \A B \in Keys(worker[t].fs) :
                        /\ r.status # "deleted"
                        /\ is_uid(r.uid)
                        /\ PathsOf(worker[t].fs, r.uid) = {B}
                        /\ B # r.path
                        => /\ catalog[i].path = B
                           /\ catalog[i].modified_date > r.modified_date

(***************************************************************************)
(* C6: a path correction creates no record.  Over a pass during which      *)
(* nobody else changed files or catalog, every record that existed at the  *)
(* catalog read keeps its id, uid and status; a record that changed is one *)
(* of a matched identity and now has the path the scan reports for it; and *)
(* no record added during the pass carries a matched identity.             *)
(***************************************************************************)
C6_CorrectionCreatesNoRecord ==
    \A t \in Threads :
        AtEnd(t) /\ calm >= 1 =>
            LET c0 == worker[t].cat0
                matched == common_uids(worker[t].db, worker[t].fs)
            IN  /\ Len(catalog) >= Len(c0)
                /\ \A i \in 1..Len(c0) :
                       /\ catalog[i].id = c0[i].id
                       /\ catalog[i].uid = c0[i].uid
                       /\ catalog[i].status = c0[i].status
                       /\ catalog[i] # c0[i] =>
                              /\ c0[i].uid \in matched
                              /\ catalog[i].path = FirstPath(worker[t].fs, c0[i].uid)
                /\ \A j \in (Len(c0) + 1)..Len(catalog) : catalog[j].uid \notin matched

\* a pass has corrected the path of a record
C6_Witness ==
    \E t \in Threads :
        /\ AtEnd(t) /\ calm >= 1
        /\ \E i \in 1..Len(worker[t].cat0) : catalog[i].path # worker[t].cat0[i].path

(***************************************************************************)
(* C7: template exclusion.  No scan result holds a path under the template *)
(* subtree and no catalog record has a path under it.                      *)
(***************************************************************************)
C7_TemplateExcluded ==
    /\ \A t \in Threads : \A k \in 1..Len(worker[t].fs) :
           ~UnderTemplateDir(worker[t].fs[k].path)
    /\ \A i \in Ids : ~UnderTemplateDir(catalog[i].path)

(***************************************************************************)
(* C8: the scan returns exactly one entry for every sentinel file that is  *)
(* readable and not under the template subtree, keyed by the project       *)
(* directory relative to the projects root, holding the trimmed content.   *)
(***************************************************************************)
IsTrimOf(u, c) ==
    /\ u = <<>> \/ (u[1] # "WS" /\ u[Len(u)] # "WS")
    /\ \E a \in 0..Len(c) :
           /\ a + Len(u) <= Len(c)
           /\ SubSeq(c, a + 1, a + Len(u)) = u
           /\ \A k \in (1..a) \cup ((a + Len(u) + 1)..Len(c)) : c[k] = "WS"

ScanExact(result) ==
    /\ Keys(result) = {d \in Dirs : Readable(d) /\ ~UnderTemplateDir(d)}
    /\ Len(result) = Cardinality(Keys(result))
    /\ \A k \in 1..Len(result) : IsTrimOf(result[k].uid, files[result[k].path])

C8_ScanExact ==
    [][\A t \in Threads :
           worker[t].pc = "begin" /\ worker'[t].pc = "readdb" => ScanExact(worker'[t].fs)]_vars

\* a scan has just returned an entry whose content it trimmed, while the
\* template directory holds a sentinel of its own
C8_Witness ==
    \E t \in Threads :
        /\ worker[t].pc = "readdb" /\ Undisturbed(t)
        /\ files[DirT] # NoFile
        /\ \E k \in 1..Len(worker[t].fs) :
               /\ files[worker[t].fs[k].path] # worker[t].fs[k].uid
               /\ is_uid(worker[t].fs[k].uid)

(***************************************************************************)
(* C9: every created, modified, deleted or moved event outside the         *)
(* template subtree makes the watcher enqueue a synchronization request:   *)
(* there are at least as many accepted requests as handled events.         *)
(***************************************************************************)
C9_EventEnqueuesSync == rootExists => accepted >= handled

(***************************************************************************)
(* C10: requests are neither coalesced nor lost.  While shutdown() has not *)
(* been invoked every accepted task is in the queue, in its pass or done,  *)
(* the queued tasks are distinct, and every queued task eventually has its *)
(* own pass run to the end.                                                *)
(***************************************************************************)
InQueue(n) == \E k \in 1..Len(sync_queue) : sync_queue[k] = n

C10_Accounted ==
    sd = "no" =>
        /\ accepted = passes + Len(sync_queue) + Cardinality({t \in Threads : InPass(t)})
        /\ \A j, k \in 1..Len(sync_queue) : j # k => sync_queue[j] # sync_queue[k]

C10_NoRequestLost ==
    /\ []C10_Accounted
    /\ \A n \in 1..MaxSync :
           InQueue(n) ~> (sd # "no" \/ (\E t \in Threads : worker[t].task = n /\ AtEnd(t)))
    /\ <>(sd # "no") \/ <>[](accepted = passes)

\* two requests were accepted and two passes have run, without a shutdown
C10_Witness == sd = "no" /\ accepted = 2 /\ passes = 2

(***************************************************************************)
(* C11: requests are processed first in, first out.  Tasks are numbered in *)
(* the order synchronize() accepted them; the task whose pass is running   *)
(* is the one after the passes that have finished, and every task still    *)
(* queued was accepted later than it and waits behind the earlier ones.    *)
(***************************************************************************)
Pending == SelectSeq(sync_queue, LAMBDA x : x # None)

C11_Fifo ==
    /\ \A j, k \in 1..Len(Pending) : j < k => Pending[j] < Pending[k]
    /\ \A k \in 1..Len(Pending) : Pending[k] > passes
    /\ \A t \in Threads : InPass(t) =>
           /\ worker[t].task = passes + 1
           /\ \A k \in 1..Len(Pending) : Pending[k] > worker[t].task

\* the pass of the second request runs after the pass of the first one has
\* finished, both having been queued together
C11_Witness ==
    /\ passes = 1
    /\ \E t \in Threads : InPass(t) /\ worker[t].task = 2 /\ worker[t].pc = "readdb"

(***************************************************************************)
(* C12: shutdown terminates the worker.  Once shutdown() has been invoked  *)
(* the worker thread eventually leaves its loop, wherever it was, and      *)
(* shutdown() returns only when the thread has exited or when join() timed *)
(* out on a pass that is still running.                                    *)
(***************************************************************************)
C12_ShutdownStopsWorker ==
    /\ [][sd = "join" /\ sd' = "done" =>
              \A t \in Threads : ~Alive(t) \/ InPass(t)]_vars
    /\ (sd # "no") ~> (\A t \in Threads : ~Alive(t))

\* shutdown() has returned with the worker gone, after a pass had run
C12_Witness == sd = "done" /\ passes >= 1 /\ \A t \in Threads : ~Alive(t)

(***************************************************************************)
(* C13: after the stop signal no new work is pulled.  No pass runs for a   *)
(* request that synchronize() accepted after shutdown() was invoked, and a *)
(* worker that has observed the stop signal and left its loop stays out.   *)
(***************************************************************************)
C13_NoWorkAfterStop ==
    /\ [](\A t \in Threads : InPass(t) => worker[t].task \notin late)
    /\ [][\A t \in Threads : ~Alive(t) => ~Alive(t)']_vars

(***************************************************************************)
(* C14: shutdown never cancels a pass in flight.  A worker leaves a pass   *)
(* only through the end of _process_sync_task, back to its loop, and a     *)
(* pass reaches its end only when no path correction and no entry without  *)
(* a uid is left to handle, whatever shutdown() has done meanwhile.        *)
(***************************************************************************)
C14_PassRunsToEnd ==
    [][\A t \in Threads :
           /\ InPass(t) /\ ~InPass(t)' =>
                  worker[t].pc = "finish" /\ worker'[t].pc = "loop" /\ passes' = passes + 1
           /\ InPass(t) /\ ~AtEnd(t) /\ AtEnd(t)' =>
                  /\ worker'[t].fix = {}
                  /\ \A k \in (worker[t].i + 1)..Len(worker'[t].fs) :
                         is_uid(worker'[t].fs[k].uid)]_vars

\* shutdown() has already returned on its timeout while the pass it found
\* running is still adopting a project
C14_Witness ==
    sd = "done" /\ \E t \in Threads : worker[t].pc = "create" /\ worker[t].uid # NoneText

(***************************************************************************)
(* C15: per-item fault isolation.  At the end of a pass during which       *)
(* nobody else changed files or catalog, every scanned entry without a uid *)
(* whose sentinel can be written holds a valid uid and has a record with   *)
(* that uid and its path, and every matched identity with differing paths  *)
(* whose record can be fetched has the scanned path, whichever other items *)
(* of the same pass failed.                                                *)
(***************************************************************************)
Failed(t, k) == ~is_uid(worker[t].fs[k].uid) /\ ~Writable(worker[t].fs[k].path)

C15_FaultIsolated ==
    \A t \in Threads :
        AtEnd(t) /\ calm >= 1 =>
            /\ \A k \in 1..Len(worker[t].fs) :
                   LET P == worker[t].fs[k].path
                   IN  ~is_uid(worker[t].fs[k].uid) /\ Writable(P) =>
                           /\ is_uid(files[P])
                           /\ \E i \in Ids : catalog[i].uid = files[P] /\ catalog[i].path = P
            /\ \A uid \in NeedsFix(worker[t].db, worker[t].fs) :
                   LET project == get_project_from_uid(worker[t].cat0, uid)
                   IN  project.kind = "one" =>
                           catalog[project.id].path = FirstPath(worker[t].fs, uid)

\* a pass has ended in which the first entry without a uid failed (its
\* sentinel cannot be written) and a later one was adopted
C15_Witness ==
    \E t \in Threads :
        /\ AtEnd(t) /\ calm >= 1
        /\ \E j, k \in 1..Len(worker[t].fs) :
               /\ j < k /\ Failed(t, j)
               /\ ~is_uid(worker[t].fs[k].uid)
               /\ \E i \in Ids : catalog[i].path = worker[t].fs[k].path

(***************************************************************************)
(* C16: a failed pass does not kill the scheduler.  While shutdown() has   *)
(* not been invoked the worker thread is alive, and a request that waits   *)
(* in the queue while a pass runs with the projects root missing still     *)
(* gets its own pass run to the end.                                       *)
(***************************************************************************)
C16_FailedPassKeepsScheduler ==
    /\ [](sd = "no" => \A t \in Threads : Alive(t))
    /\ \A n \in 1..MaxSync :
           (InQueue(n) /\ ~rootExists /\ (\E t \in Threads : InPass(t)))
               ~> (sd # "no" \/ (\E t \in Threads : worker[t].task = n /\ AtEnd(t)))

\* the first pass ran with the projects root gone and did nothing; the pass
\* of the second request has run all the same
C16_Witness ==
    /\ sd = "no" /\ ~rootExists /\ events = 0 /\ catalog = <<>> /\ passes = 1
    /\ \E t \in Threads : worker[t].task = 2 /\ AtEnd(t)

(***************************************************************************)
(* C17: mark-deleted policy.  At the end of a pass during which nobody     *)
(* else changed files or catalog, every record that was active at the      *)
(* catalog read and whose identity the scan found at no sentinel file is   *)
(* marked deleted.                                                         *)
(***************************************************************************)
C17_MissingMarkedDeleted ==
    \A t \in Threads :
        AtEnd(t) /\ calm >= 1 =>
            \A i \in 1..Len(worker[t].cat0) :
                LET r == worker[t].cat0[i]
                IN  r.status # "deleted" /\ is_uid(r.uid)
                        /\ r.uid \notin ValidUids(worker[t].fs) =>
                            catalog[i].status = "deleted"

(***************************************************************************)
(* C18: insert-missing policy.  At the end of a pass during which nobody   *)
(* else changed files or catalog, every scanned project that holds a valid *)
(* identity has an active record with that identity.                       *)
(***************************************************************************)
C18_ValidGetsRecord ==
    \A t \in Threads :
        AtEnd(t) /\ calm >= 1 =>
            \A k \in 1..Len(worker[t].fs) :
                is_uid(worker[t].fs[k].uid) =>
                    \E i \in Ids : Active(i) /\ catalog[i].uid = worker[t].fs[k].uid

(***************************************************************************)
(* DatabaseService used on its own: a caller creates projects and updates  *)
(* them (path, name, status, modification date), in any order.             *)
(***************************************************************************)
MaxCalls == 4

apiFrame == <<fsVars, minted, queueVars, is_worker_running, is_synchronizing, worker,
              watcher, events, handled, sd, userOps, histVars, monVars>>

\* DatabaseService.create_project(name, path, uid)
ApiCreate(path, uid) ==
    /\ now < MaxCalls
    /\ catalog' = create_project(catalog, Name(path), path, uid, now + 1)
    /\ now' = now + 1
    /\ UNCHANGED apiFrame

\* DatabaseService.mark_deleted_project(project_id)
ApiMarkDeleted(project_id) ==
    /\ now < MaxCalls
    /\ project_id \in Ids
    /\ catalog' = mark_deleted_project(catalog, project_id, now + 1)
    /\ now' = now + 1
    /\ UNCHANGED apiFrame

\* DatabaseService.update_project_path(project_id, new_rel_path)
ApiUpdatePath(project_id, new_rel_path) ==
    /\ now < MaxCalls
    /\ project_id \in Ids
    /\ catalog' = update_project_path(catalog, project_id, new_rel_path, now + 1)
    /\ now' = now + 1
    /\ UNCHANGED apiFrame

\* DatabaseService.update_project_name(project_id, name)
ApiUpdateName(project_id, name) ==
    /\ now < MaxCalls
    /\ project_id \in Ids
    /\ catalog' = update_project_name(catalog, project_id, name, now + 1)
    /\ now' = now + 1
    /\ UNCHANGED apiFrame

\* DatabaseService.update_project_modified_date(project_id)
ApiTouchModified(project_id) ==
    /\ now < MaxCalls
    /\ project_id \in Ids
    /\ catalog' = update_project_modified_date(catalog, project_id, now + 1)
    /\ now' = now + 1
    /\ UNCHANGED apiFrame

CatalogNext ==
    \/ \E d \in Dirs, n \in 1..2 : ApiCreate(d, uuid4(n))
    \/ \E project_id \in 1..MaxCalls : ApiMarkDeleted(project_id)
    \/ \E project_id \in 1..MaxCalls, d \in Dirs : ApiUpdatePath(project_id, d)
    \/ \E project_id \in 1..MaxCalls, d \in Dirs : ApiUpdateName(project_id, Name(d))
    \/ \E project_id \in 1..MaxCalls : ApiTouchModified(project_id)

CatalogSpec == FairInit /\ [][CatalogNext]_vars

\* the catalog without its row i
Without(cat, i) == SubSeq(cat, 1, i - 1) \o SubSeq(cat, i + 1, Len(cat))

(***************************************************************************)
(* C19: a record on which mark_deleted_project has been applied has status *)
(* "deleted" and is left out of the snapshot _get_projects_from_database   *)
(* builds: the snapshot is the one of the catalog without that record.     *)
(***************************************************************************)
C19_MarkedDeletedExcluded ==
    [][\A project_id \in Ids :
           ApiMarkDeleted(project_id) =>
               /\ catalog'[project_id].status = "deleted"
               /\ get_projects_from_database(catalog')
                      = get_projects_from_database(Without(catalog', project_id))]_vars

(***************************************************************************)
(* C20: in every reachable state no two records that are not deleted have  *)
(* the same identity.                                                      *)
(***************************************************************************)
C20_IdentityUnique ==
    \A i, j \in Ids :
        i # j /\ Active(i) /\ Active(j) => catalog[i].uid # catalog[j].uid

(***************************************************************************)
(* C21: a record's identity never changes.  No step of a pass, of a        *)
(* watcher handler or of any other thread changes the uid of a record that *)
(* exists, and no record disappears.                                       *)
(***************************************************************************)
C21_UidImmutable ==
    [][\A i \in Ids : i <= Len(catalog') /\ catalog'[i].uid = catalog[i].uid]_vars

\* a pass has corrected a record's path and kept its name and its uid
C21_Witness ==
    \E t \in Threads :
        /\ AtEnd(t)
        /\ \E i \in 1..Len(worker[t].cat0) :
               /\ catalog[i].path # worker[t].cat0[i].path
               /\ catalog[i].name = worker[t].cat0[i].name
               /\ catalog[i].uid = worker[t].cat0[i].uid


\* the fields of a catalog record other than its modification date
DataFields == {"id", "uid", "path", "name", "status"}

\* a call on record project_id advanced its modification date and changed no
\* field but own, and no other record
OnlyChanged(project_id, own) ==
    /\ Len(catalog') = Len(catalog)
    /\ catalog'[project_id].modified_date > catalog[project_id].modified_date
    /\ \A f \in DataFields \ own : catalog'[project_id][f] = catalog[project_id][f]
    /\ \A j \in Ids : j # project_id => catalog'[j] = catalog[j]

(***************************************************************************)
(* C22: update_project_path, update_project_name, mark_deleted_project and *)
(* update_project_modified_date each advance the modification date of the  *)
(* record they are called on and change only their own field of it (path,  *)
(* name, status, none); every other field and every other record is kept.  *)
(***************************************************************************)
C22_UpdateFrame ==
    [][\A project_id \in Ids :
           /\ (\E d \in Dirs : ApiUpdatePath(project_id, d))
                  => OnlyChanged(project_id, {"path"})
           /\ (\E d \in Dirs : ApiUpdateName(project_id, Name(d)))
                  => OnlyChanged(project_id, {"name"})
           /\ ApiMarkDeleted(project_id) => OnlyChanged(project_id, {"status"})
           /\ ApiTouchModified(project_id) => OnlyChanged(project_id, {})]_vars

\* a record was renamed and then marked deleted, beside an untouched record
C22_Witness ==
    /\ Len(catalog) = 2
    /\ \E i, j \in Ids :
           /\ catalog[i].name # Name(catalog[i].path)
           /\ catalog[i].status = "delete"
           /\ catalog[j].status = "active"
           /\ catalog[j].modified_date < catalog[i].modified_date


(***************************************************************************)
(* C23: when the path of a record is corrected, the record is renamed to   *)
(* the last component of the new path if and only if the name it had       *)
(* starts with the name of the template directory; otherwise its name is   *)
(* kept.                                                                   *)
(***************************************************************************)
C23_RenameOnCorrection ==
    [][\A i \in Ids :
           catalog'[i].path # catalog[i].path =>
               catalog'[i].name =
                   IF startswith(catalog[i].name, Name(template_exc_path))
                   THEN Name(catalog'[i].path)
                   ELSE catalog[i].name]_vars

\* a pass has moved a record that was named like the template and renamed it
C23_Witness ==
    \E t \in Threads :
        /\ AtEnd(t)
        /\ \E i \in 1..Len(worker[t].cat0) :
               /\ startswith(worker[t].cat0[i].name, Name(template_exc_path))
               /\ catalog[i].path # worker[t].cat0[i].path
               /\ catalog[i].name = Name(catalog[i].path)
               /\ catalog[i].name # worker[t].cat0[i].name


(***************************************************************************)
(* C24: when more than one catalog record carries an identity that the     *)
(* scan also found on disk, the first of them in the store's order is the  *)
(* one whose path is compared with the disk and corrected: at the end of   *)
(* an undisturbed pass that record's path is the path found on disk.       *)
(***************************************************************************)
C24_FirstDuplicateWins ==
    \A t \in Threads :
        AtEnd(t) /\ calm >= 1 =>
            \A uid \in common_uids(worker[t].db, worker[t].fs) :
                LET rows == {i \in 1..Len(worker[t].cat0) :
                                /\ worker[t].cat0[i].uid = uid
                                /\ worker[t].cat0[i].status # "deleted"}
                IN  Cardinality(rows) > 1 =>
                        \E first \in rows :
                            /\ \A i \in rows : first <= i
                            /\ worker[t].cat0[first].path = FirstPath(worker[t].db, uid)
                            /\ catalog[first].path = FirstPath(worker[t].fs, uid)


(***************************************************************************)
(* C25: a synchronize() call made while the projects root (and so the     *)
(* file-server root above it, or the projects directory) does not exist    *)
(* returns False: no request is accepted, nothing is put in the queue, and *)
(* the call reads no file, touches no catalog record and moves no worker.  *)
(* False is returned for no other reason.                                  *)
(***************************************************************************)
C25_InvalidPathsRefused ==
    [][/\ ~rootExists /\ synchronize =>
              /\ refused' = 1
              /\ UNCHANGED <<queueVars, fsVars, dbVars, minted, worker, is_synchronizing>>
       /\ ~rootExists => accepted' = accepted
       /\ refused' # refused => ~rootExists /\ UNCHANGED <<queueVars, dbVars, worker>>]_vars

\* a call was refused: the root is missing, nothing is queued and no pass ran
C25_Witness ==
    /\ refused = 1
    /\ ~rootExists
    /\ accepted = 0
    /\ sync_queue = <<>>
    /\ passes = 0


(***************************************************************************)
(* C26: the scan fails soft per file.  A sentinel that cannot be read is   *)
(* left out of the scan result and every other readable sentinel outside   *)
(* the template subtree is still in it; with the projects root present the *)
(* result is empty only if there was no such sentinel to return.           *)
(***************************************************************************)
C26_ScanFailsSoft ==
    [][\A t \in Threads :
           worker[t].pc = "begin" /\ worker'[t].pc = "readdb" =>
               /\ \A d \in Dirs :
                      Exists(d) /\ ~Readable(d) =>
                          /\ d \notin Keys(worker'[t].fs)
                          /\ \A e \in Dirs \ {d} :
                                 Readable(e) /\ ~UnderTemplateDir(e)
                                     => e \in Keys(worker'[t].fs)
               /\ worker'[t].fs = <<>> /\ rootExists =>
                      \A e \in Dirs : ~(Readable(e) /\ ~UnderTemplateDir(e))]_vars

\* a scan has just returned an entry although another sentinel was unreadable
C26_Witness ==
    \E t \in Threads :
        /\ worker[t].pc = "readdb" /\ Undisturbed(t)
        /\ \E d \in Dirs : Exists(d) /\ ~Readable(d) /\ ~UnderTemplateDir(d)
        /\ worker[t].fs # <<>>


(***************************************************************************)
(* C27: for every content s of a sentinel, is_uid accepts the trimmed s if *)
(* and only if it is a UUID in canonical textual form; the empty text is   *)
(* never accepted.  The handler that has read a sentinel goes on with the  *)
(* text as an identity exactly when the text is canonical.                 *)
(***************************************************************************)
C27_ValidIffCanonical ==
    watcher.pc # "idle" =>
        LET s == read_project_file(watcher.file)
        IN  /\ is_uid(s) <=> IsCanonical(s)
            /\ watcher.pc = "lookup" <=> IsCanonical(s)
            /\ s = <<>> => watcher.pc = "set_uid"


\* worker t is inside the try block of _process_sync_task
InTask(t) == worker[t].pc \in {"readdb", "common", "set_uid", "create", "finish"}

(***************************************************************************)
(* C28: is_synchronizing() is true exactly while the worker is inside      *)
(* _process_sync_task, and it is false after every pass, a pass that ended *)
(* with an error included.                                                 *)
(***************************************************************************)
C28_RunningIffInPass ==
    /\ [](is_synchronizing <=> \E t \in Threads : InTask(t))
    /\ [][passes' # passes => ~is_synchronizing']_vars

\* a pass over a missing projects root has ended (the untokened sentinel is
\* still unadopted) and the flag is down
C28_Witness ==
    /\ passes = 1 /\ ~is_synchronizing
    /\ ~rootExists /\ catalog = <<>> /\ events = 0
    /\ \E d \in Dirs \ {DirT} : files[d] = Empty /\ perm[d] = "rw"
    /\ \A t \in Threads : ~InPass(t)


(***************************************************************************)
(* C29: a pass whose scan returned nothing (the projects root is missing   *)
(* or its enumeration failed) does not change the catalog: none of its     *)
(* steps creates, updates or marks deleted a record.                       *)
(***************************************************************************)
C29_EmptyScanNoMutation ==
    [][\A t \in Threads :
           /\ worker'[t] # worker[t]
           /\ \/ InTask(t) /\ worker[t].fs = <<>>
              \/ worker[t].pc = "begin" /\ worker'[t].fs = <<>>
           => UNCHANGED catalog]_vars

\* a pass over a missing projects root has reached its end with records in
\* the catalog, none of them touched
C29_Witness ==
    \E t \in Threads :
        /\ AtEnd(t) /\ Undisturbed(t)
        /\ ~rootExists
        /\ worker[t].fs = <<>>
        /\ worker[t].cat0 # <<>>
        /\ catalog = worker[t].cat0


(***************************************************************************)
(* C30: when the path the catalog holds for a matched identity is the path *)
(* the scan found for it, the pass does nothing for that identity: at the  *)
(* end of an undisturbed pass every record carrying it is as it was, path, *)
(* name, status and modification date included.                            *)
(***************************************************************************)
C30_SamePathNoOp ==
    \A t \in Threads :
        AtEnd(t) /\ calm >= 1 =>
            \A i \in 1..Len(worker[t].cat0) :
                (/\ worker[t].cat0[i].uid \in common_uids(worker[t].db, worker[t].fs)
                 /\ FirstPath(worker[t].db, worker[t].cat0[i].uid)
                        = FirstPath(worker[t].fs, worker[t].cat0[i].uid))
                => catalog[i] = worker[t].cat0[i]

\* a second pass has reached its end over a project adopted by the first:
\* its record and its sentinel agree on the path
C30_Witness ==
    \E t \in Threads :
        /\ AtEnd(t) /\ calm >= 1 /\ worker[t].task = 2
        /\ \E i \in 1..Len(worker[t].cat0) :
               /\ worker[t].cat0[i].uid \in common_uids(worker[t].db, worker[t].fs)
               /\ worker[t].cat0[i].path = FirstPath(worker[t].db, worker[t].cat0[i].uid)
               /\ worker[t].cat0[i].path = FirstPath(worker[t].fs, worker[t].cat0[i].uid)
               /\ catalog[i] = worker[t].cat0[i]


(***************************************************************************)
(* C31: when set_uid could not write the sentinel of an untokened entry    *)
(* and returned no token, the pass creates no record for that path and     *)
(* goes on with the next untokened entry; no record ever has an empty or   *)
(* missing uid.                                                            *)
(***************************************************************************)
C31_FailedAssignCreatesNothing ==
    /\ [](\A i \in Ids : catalog[i].uid \notin {NoneText, Empty})
    /\ [][\A t \in Threads :
              worker[t].pc = "create" /\ worker[t].uid = NoneText
              /\ worker'[t] # worker[t] =>
                  /\ catalog' = catalog
                  /\ worker'[t] = AfterCommon([worker[t] EXCEPT !.uid = NoneText])]_vars

\* the pass is at its second untokened entry after set_uid failed on the
\* first, whose path has no record
C31_Witness ==
    \E t \in Threads :
        /\ worker[t].pc = "set_uid" /\ worker[t].i = 2 /\ Undisturbed(t)
        /\ ~is_uid(worker[t].fs[1].uid)
        /\ ~Writable(worker[t].fs[1].path)
        /\ \A r \in Ids : catalog[r].path # worker[t].fs[1].path


(***************************************************************************)
(* C32: no step of a pass makes two active records share a path: an        *)
(* adoption creates no record at a path an active record already has, and  *)
(* a correction moves no record onto the path of another active record.    *)
(***************************************************************************)
C32_PassKeepsPathsDistinct ==
    [][\A t \in Threads :
           worker'[t] # worker[t] =>
               \A i, j \in 1..Len(catalog') :
                   (/\ i # j
                    /\ catalog'[i].status # "deleted" /\ catalog'[j].status # "deleted"
                    /\ catalog'[i].path = catalog'[j].path)
                   => /\ i \in Ids /\ j \in Ids
                      /\ catalog[i].path = catalog[j].path]_vars


(***************************************************************************)
(* C33: a path is corrected only when the identity is no longer found at   *)
(* the recorded path.  If the scan found a record's uid in the sentinel of *)
(* the record's own path (and, as after a copy of the project directory,   *)
(* in another sentinel too), the record has the same path at the end of    *)
(* an undisturbed pass.                                                    *)
(***************************************************************************)
C33_CopyKeepsPath ==
    \A t \in Threads :
        AtEnd(t) /\ calm >= 1 =>
            \A i \in 1..Len(worker[t].cat0) :
                (/\ worker[t].cat0[i].status # "deleted"
                 /\ is_uid(worker[t].cat0[i].uid)
                 /\ \E k \in 1..Len(worker[t].fs) :
                        /\ worker[t].fs[k].path = worker[t].cat0[i].path
                        /\ worker[t].fs[k].uid = worker[t].cat0[i].uid)
                => catalog[i].path = worker[t].cat0[i].path


(***************************************************************************)
(* C34: the record the watcher's handler creates for a sentinel file has   *)
(* the path the scan reports for that project: the directory holding the   *)
(* sentinel, relative to the projects root.                                *)
(***************************************************************************)
C34_HandlerPathIsScanPath ==
    [][HandlerCreate /\ Len(catalog') > Len(catalog) =>
           catalog'[Len(catalog')].path
               = get_relative_path(projects_root_path, Parent(watcher.file))]_vars


(***************************************************************************)
(* C35: however many created or modified events are delivered for a        *)
(* sentinel file that nobody else changes, there is at most one record for *)
(* its identity and at most one for the file, and the handler creates no   *)
(* record when one with the identity exists.                               *)
(***************************************************************************)
C35_HandlerIdempotent ==
    /\ [](\A i, j \in Ids :
              i # j => /\ catalog[i].uid # catalog[j].uid
                       /\ catalog[i].path # catalog[j].path)
    /\ [][Len(catalog') > Len(catalog) =>
              get_project_from_uid(catalog, catalog'[Len(catalog')].uid).kind = "none"]_vars

\* a later event of a sentinel whose identity has its record: the handler
\* has read the uid and is about to return without creating anything
C35_Witness ==
    /\ watcher.pc = "lookup" /\ events >= 2
    /\ \E i \in Ids :
           /\ catalog[i].uid = watcher.uid
           /\ catalog[i].path = get_relative_project_path(ServerPath \o ProjectDir,
                                                          watcher.file)


\* the last call that returned True was c and no call is under way
LastReturned(c) == api = "idle" /\ log # <<>> /\ log[Len(log)] = c

(***************************************************************************)
(* C36: monitoring can be restarted.  When a start_monitoring() has        *)
(* returned True after a stop_monitoring() that returned True, and no      *)
(* further call has been made, the service is monitoring: is_monitoring is *)
(* true and the monitoring loop started last is running.                   *)
(***************************************************************************)
C36_RestartMonitors ==
    (/\ LastReturned("start")
     /\ Len(log) >= 2 /\ log[Len(log) - 1] = "stop")
    => /\ is_monitoring
       /\ loops # <<>> /\ loops[Len(loops)] \notin {"finally", "done"}

(***************************************************************************)
(* C37: when stop_monitoring() has returned True and no further call has   *)
(* been made, no observer is running and is_monitoring is false; no        *)
(* monitoring loop creates an observer once the stop event is set.         *)
(***************************************************************************)
C37_StoppedMeansNoObserver ==
    /\ [](LastReturned("stop") /\ (\A k \in DOMAIN loops : loops[k] = "done")
              => alive = {} /\ ~is_monitoring)
    /\ [][_stop_event /\ made' > made => api = "start_setup"]_vars

====
